---- MODULE Spec2Model ----
(***************************************************************************)
(* Arovia Health Desk front end (theshubhamgundu/ai-health).               *)
(*                                                                         *)
(* The routed application App (Disclaimer, Header, Dashboard, TriageForm,  *)
(* VoiceInput, Facilities, Results) and the stand-alone component          *)
(* AroviaHealthDesk, as state machines.  A text is a sequence of tokens,   *)
(* a token being one blank, one word, one dot of a translation key, or a   *)
(* run of characters nothing looks into.  An optional value (null or       *)
(* undefined in the source) is the empty sequence Null, a present one the  *)
(* one-element sequence Some(v).                                           *)
(***************************************************************************)
EXTENDS Integers, Sequences, FiniteSets, TLC

VARIABLES
    root,            \* which root component is mounted: "App" or "Desk"
    route,           \* App: the router's current path
    triageResult,    \* App: useState<TriageResult | null>
    facilities,      \* App: useState<Facility[]>
    loading,         \* App: useState(false)
    error,           \* App: useState<string | null>
    pending,         \* App: the fetch a submit handler is awaiting
    dashboard,       \* Dashboard: [symptoms, location]
    triageForm,      \* TriageForm: [symptoms, location]
    voiceInput,      \* VoiceInput: [isRecording, recordingTime, audioBlob, selectedLanguage]
    facilitiesPage,  \* Facilities: [searchLocation, filteredFacilities, searches]
    disclaimer,      \* Disclaimer: [mounted, isAccepted, showFullInFooter]
    sessionStorage,  \* the browser's sessionStorage: a function from keys to values
    language,        \* i18n.language
    desk             \* AroviaHealthDesk: its useState fields and the fetch it awaits

vars == <<root, route, triageResult, facilities, loading, error, pending,
          dashboard, triageForm, voiceInput, facilitiesPage,
          disclaimer, sessionStorage, language, desk>>

appVars == <<route, triageResult, facilities, loading, error, pending,
             dashboard, triageForm, voiceInput, facilitiesPage>>

shellVars == <<disclaimer, sessionStorage, language>>

-----------------------------------------------------------------------------
(* Bounds *)

\* most facilities the facility search finds
MaxFacilities == 4

\* most seconds a recording is followed for
MaxTicks == 2

\* most requests a component has in flight besides App's own
MaxInFlight == 1

-----------------------------------------------------------------------------
(* Optional values and texts *)

Null == <<>>

Some(v) == <<v>>

Truthy(opt) == opt # Null /\ opt # Some("")

\* the symptoms a user types: nothing, blanks only, words without an
\* emergency phrase, an emergency phrase with blanks around it
SymptomTexts ==
    {<<>>, <<" ">>, <<"fever">>, <<" ", "chest", " ", "pain", " ">>}

\* the locations a user types: nothing, blanks only, a city with a blank after it
LocationTexts == {<<>>, <<" ">>, <<"Pune", " ">>}

IsWhitespace(c) == c = " "

RECURSIVE TrimStart(_)
TrimStart(s) ==
    IF s # <<>> /\ IsWhitespace(Head(s)) THEN TrimStart(Tail(s)) ELSE s

RECURSIVE TrimEnd(_)
TrimEnd(s) ==
    IF s # <<>> /\ IsWhitespace(s[Len(s)])
    THEN TrimEnd(SubSeq(s, 1, Len(s) - 1))
    ELSE s

\* String.prototype.trim
Trim(s) == TrimEnd(TrimStart(s))

\* `x || undefined' on a string: the empty string is falsy
OrUndefined(s) == IF s = <<>> THEN Null ELSE Some(s)

\* `phrase' occurs in `text' as a contiguous run
Contains(text, phrase) ==
    \E i \in 1..(Len(text) - Len(phrase) + 1) :
        SubSeq(text, i, i + Len(phrase) - 1) = phrase

-----------------------------------------------------------------------------
(* The backend behind /triage/text, /triage/voice and /facilities *)

EMERGENCY_KEYWORDS ==
    [cardiac |->
        {<<"chest", " ", "pain">>, <<"heart", " ", "attack">>,
         <<"crushing", " ", "chest", " ", "pressure">>,
         <<"pain", " ", "radiating", " ", "to", " ", "arm/jaw">>,
         <<"severe", " ", "palpitations">>},
     neurological |->
        {<<"stroke">>, <<"face", " ", "drooping">>, <<"arm", " ", "weakness">>,
         <<"slurred", " ", "speech">>,
         <<"sudden", " ", "severe", " ", "headache">>,
         <<"loss", " ", "of", " ", "consciousness">>, <<"seizure">>},
     respiratory |->
        {<<"can't", " ", "breathe">>, <<"choking">>,
         <<"severe", " ", "shortness", " ", "of", " ", "breath">>,
         <<"blue", " ", "lips">>, <<"gasping", " ", "for", " ", "air">>},
     trauma |->
        {<<"severe", " ", "bleeding">>, <<"head", " ", "injury">>,
         <<"broken", " ", "bone", " ", "visible">>,
         <<"penetrating", " ", "wound">>,
         <<"unconscious", " ", "after", " ", "injury">>},
     mental_health |->
        {<<"suicide">>, <<"want", " ", "to", " ", "die">>, <<"self-harm">>,
         <<"kill", " ", "myself">>},
     other |->
        {<<"severe", " ", "abdominal", " ", "pain">>,
         <<"pregnancy", " ", "+", " ", "bleeding">>,
         <<"high", " ", "fever", " ", "in", " ", "infant">>,
         <<"allergic", " ", "reaction", " ", "+", " ", "swelling">>}]

EmergencyPhrases == UNION {EMERGENCY_KEYWORDS[c] : c \in DOMAIN EMERGENCY_KEYWORDS}

KeywordDetected(symptoms) == \E p \in EmergencyPhrases : Contains(symptoms, p)

\* urgency scores the language model answers with (the README's examples)
LLMScores == {2, 6, 8, 10}

\* what the language model answers on its own, before the safety rails
LLMAnswers ==
    [urgency_score : LLMScores,
     red_flags : {<<>>, <<"cardiac">>},
     emergency_detected : BOOLEAN]

\* a detected keyword sets urgency 10 and escalates
KeywordOverride(symptoms, answer) ==
    IF KeywordDetected(symptoms)
    THEN [answer EXCEPT !.urgency_score = 10, !.emergency_detected = TRUE]
    ELSE answer

\* a red flag is an automatic emergency escalation trigger
RedFlagEscalation(answer) ==
    IF Len(answer.red_flags) > 0
    THEN [answer EXCEPT !.emergency_detected = TRUE]
    ELSE answer

TriageBackend(symptoms, answer) ==
    RedFlagEscalation(KeywordOverride(symptoms, answer))

\* every triage result the backend can answer with
BackendResults ==
    {TriageBackend(s, a) : s \in SymptomTexts, a \in LLMAnswers}

\* distance of the i-th facility the mapping service finds (not monotonic in i)
DistanceKm(i) == ((i * 3) % 7) + 1

Facility(i) == [name |-> i, distance_km |-> DistanceKm(i)]

\* what the mapping service finds, in its own order
FoundFacilities(n) == [i \in 1..n |-> Facility(i)]

RECURSIVE InsertByDistance(_, _)
InsertByDistance(f, sorted) ==
    IF sorted = <<>> THEN <<f>>
    ELSE IF f.distance_km < Head(sorted).distance_km THEN <<f>> \o sorted
    ELSE <<Head(sorted)>> \o InsertByDistance(f, Tail(sorted))

RECURSIVE SortByDistance(_)
SortByDistance(fs) ==
    IF fs = <<>> THEN <<>>
    ELSE InsertByDistance(fs[Len(fs)], SortByDistance(SubSeq(fs, 1, Len(fs) - 1)))

FacilitiesBackend(n) == SortByDistance(FoundFacilities(n))

-----------------------------------------------------------------------------
(* What the components render *)

\* Array.prototype.slice(from, to), indices from 0, `to' excluded
Slice(s, from, to) ==
    SubSeq(s, from + 1, IF to < Len(s) THEN to ELSE Len(s))

getUrgencyColor(score) ==
    IF score >= 9 THEN "red"
    ELSE IF score >= 7 THEN "yellow"
    ELSE "green"

getUrgencyText(score) ==
    IF score >= 9 THEN "IMMEDIATE"
    ELSE IF score >= 7 THEN "URGENT"
    ELSE "STANDARD"

\* the Red Flags Detected card
ResultsRedFlagsCard(r) == Len(r.red_flags) > 0

\* the alert shown for the highest urgency band instead
ResultsEmergencyAlertByScore(r) == r.urgency_score >= 9

\* the EMERGENCY DETECTED / CALL 108 IMMEDIATELY card
ResultsEmergencyAlert(r) == r.emergency_detected

\* the card listing every facility it is given
ResultsFacilitiesUnsliced(fs) == fs

\* the Nearby Healthcare Facilities card: the facilities it lists
ResultsFacilities(fs) == IF Len(fs) > 0 THEN Slice(fs, 0, 3) ELSE <<>>

BlankView(screen) ==
    [screen |-> screen, urgencyColor |-> "", urgencyText |-> "", score |-> 0,
     redFlagsCard |-> FALSE, emergencyAlert |-> FALSE, facilitiesListed |-> <<>>]

\* Results looking at the result before the error
ResultsResultFirst(tr, fs, ld, err) ==
    IF ld THEN BlankView("loading")
    ELSE IF tr # Null
    THEN [screen |-> "result",
          urgencyColor |-> getUrgencyColor(tr[1].urgency_score),
          urgencyText |-> getUrgencyText(tr[1].urgency_score),
          score |-> tr[1].urgency_score,
          redFlagsCard |-> ResultsRedFlagsCard(tr[1]),
          emergencyAlert |-> ResultsEmergencyAlert(tr[1]),
          facilitiesListed |-> ResultsFacilities(fs)]
    ELSE IF Truthy(err) THEN BlankView("error")
    ELSE BlankView("no-results")

\* the Results component as a function of its props
Results(tr, fs, ld, err) ==
    IF ld THEN BlankView("loading")
    ELSE IF Truthy(err) THEN BlankView("error")
    ELSE IF tr = Null THEN BlankView("no-results")
    ELSE LET r == tr[1] IN
         [screen |-> "result",
          urgencyColor |-> getUrgencyColor(r.urgency_score),
          urgencyText |-> getUrgencyText(r.urgency_score),
          score |-> r.urgency_score,
          redFlagsCard |-> ResultsRedFlagsCard(r),
          emergencyAlert |-> ResultsEmergencyAlert(r),
          facilitiesListed |-> ResultsFacilities(fs)]

\* the error banner of Dashboard, of TriageForm and of VoiceInput: `error &&'
DashboardErrorBanner(err) == Truthy(err)

TriageFormErrorBanner(err) == Truthy(err)

VoiceInputErrorBanner(err) == Truthy(err)

\* the colour of the urgency badge in AroviaHealthDesk.renderTriageResult
DeskUrgencyColor(score) ==
    IF score >= 8 THEN "red"
    ELSE IF score >= 5 THEN "yellow"
    ELSE "green"

\* AroviaHealthDesk.renderTriageResult as a function of result
DeskRenderTriageResult(result) ==
    IF result = Null THEN BlankView("none")
    ELSE [BlankView("result") EXCEPT
             !.urgencyColor = DeskUrgencyColor(result[1].urgency_score),
             !.score = result[1].urgency_score,
             !.redFlagsCard = Len(result[1].red_flags) > 0]

\* the element each <Route> of App renders
RouteElement(path) ==
    CASE path = "/" -> "Dashboard"
      [] path = "/triage" -> "TriageForm"
      [] path = "/voice" -> "VoiceInput"
      [] path = "/facilities" -> "Facilities"
      [] path = "/results" -> "Results"
      [] OTHER -> "none"

Routes == {"/", "/triage", "/voice", "/facilities", "/results"}

\* the paths the links and buttons of the application lead to
LinkTargets == {"/", "/triage", "/voice", "/facilities"}

\* Disclaimer rendered by the Dashboard route alone
AppRenderDisclaimerInDashboard(path) ==
    IF path = "/" THEN {"Disclaimer", "Header", RouteElement(path)}
    ELSE {"Header", RouteElement(path)}

\* the components App renders at a path
AppRender(path) == {"Disclaimer", "Header", RouteElement(path)}

\* the Results element for the state App is in, mounted or not
ResultsView == Results(triageResult, facilities, loading, error)

\* the urgency colours of the README's demo scenarios, by score
ScenarioColor == (10 :> "red") @@ (6 :> "yellow") @@ (2 :> "green")

\* the urgency words of the README's demo scenarios, by score
ScenarioText == (10 :> "IMMEDIATE") @@ (6 :> "URGENT") @@ (2 :> "STANDARD")

\* what the Results route shows on screen, "off-screen" on any other route
ResultsOnScreen ==
    IF root = "App" /\ route = "/results"
    THEN Results(triageResult, facilities, loading, error)
    ELSE BlankView("off-screen")

-----------------------------------------------------------------------------
(* Initial values of the components' state *)

\* attempts is the number of fetch calls the handler has made for the request
NoRequest ==
    [url |-> "none", symptoms |-> <<>>, location |-> Null, language |-> "",
     duration |-> <<>>, quiet |-> TRUE, attempts |-> 0]

DashboardInit == [symptoms |-> <<>>, location |-> <<>>]

TriageFormInit == [symptoms |-> <<>>, location |-> <<>>]

VoiceInputInit ==
    [isRecording |-> FALSE, recordingTime |-> 0, audioBlob |-> Null,
     selectedLanguage |-> "en"]

FacilitiesPageInit(fs) ==
    [searchLocation |-> <<>>, filteredFacilities |-> fs, searches |-> <<>>]

DisclaimerInit ==
    [mounted |-> FALSE, isAccepted |-> FALSE, showFullInFooter |-> FALSE]

DeskInit ==
    [activeTab |-> "text-triage", loading |-> FALSE, result |-> Null,
     error |-> Null, textSymptoms |-> <<>>, location |-> <<>>,
     language |-> "hi",
     isRecording |-> FALSE, recordingDuration |-> 0, audioBlob |-> Null,
     ticks |-> 0, pending |-> NoRequest]

-----------------------------------------------------------------------------
(* App: navigation *)

\* the route changes to r: the element of the old route unmounts and loses
\* its state, the element of r mounts with its initial state (Facilities
\* takes its first list from the facilities prop, fs)
Mount(r, fs) ==
    /\ route' = r
    /\ dashboard' = DashboardInit
    /\ triageForm' = TriageFormInit
    /\ voiceInput' = VoiceInputInit
    /\ facilitiesPage' = FacilitiesPageInit(IF r = "/facilities" THEN fs ELSE <<>>)

\* the user did something while a submit handler was awaiting its response
Disturbed(req) == IF req.url = "none" THEN req ELSE [req EXCEPT !.quiet = FALSE]

\* a <Link> or a navigate(...) button: Header, Dashboard quick actions,
\* "Back to Dashboard", "Try Again", "New Assessment"
Navigate ==
    /\ root = "App"
    /\ \E r \in LinkTargets \ {route} :
        /\ Mount(r, facilities)
        /\ pending' = Disturbed(pending)
    /\ UNCHANGED <<root, triageResult, facilities, loading, error, shellVars, desk>>

-----------------------------------------------------------------------------
(* App: text triage *)

FetchRejected == "Failed to fetch"

\* the synchronous part of App.handleTriageSubmit, up to the first await
HandleTriageSubmit(symptoms, location) ==
    /\ loading' = TRUE
    /\ error' = Null
    /\ pending' = [NoRequest EXCEPT !.url = "/triage/text",
                                    !.symptoms = symptoms,
                                    !.location = location,
                                    !.attempts = 1]

DashboardSetSymptoms ==
    /\ root = "App" /\ route = "/"
    /\ \E v \in SymptomTexts \ {dashboard.symptoms} :
        dashboard' = [dashboard EXCEPT !.symptoms = v]
    /\ pending' = Disturbed(pending)
    /\ UNCHANGED <<root, route, triageResult, facilities, loading, error,
                   triageForm, voiceInput, facilitiesPage, shellVars, desk>>

DashboardSetLocation ==
    /\ root = "App" /\ route = "/"
    /\ \E v \in LocationTexts \ {dashboard.location} :
        dashboard' = [dashboard EXCEPT !.location = v]
    /\ pending' = Disturbed(pending)
    /\ UNCHANGED <<root, route, triageResult, facilities, loading, error,
                   triageForm, voiceInput, facilitiesPage, shellVars, desk>>

\* Dashboard.handleSubmit; the submit button is disabled while loading
DashboardHandleSubmitUnguarded ==
    /\ root = "App" /\ route = "/" /\ ~loading
    /\ HandleTriageSubmit(Trim(dashboard.symptoms),
                          OrUndefined(Trim(dashboard.location)))
    /\ UNCHANGED <<root, route, triageResult, facilities, dashboard, triageForm,
                   voiceInput, facilitiesPage, shellVars, desk>>

DashboardHandleSubmit ==
    /\ root = "App" /\ route = "/" /\ ~loading
    /\ IF Trim(dashboard.symptoms) # <<>>
       THEN HandleTriageSubmit(Trim(dashboard.symptoms),
                               OrUndefined(Trim(dashboard.location)))
       ELSE UNCHANGED <<loading, error, pending>>
    /\ UNCHANGED <<root, route, triageResult, facilities, dashboard, triageForm,
                   voiceInput, facilitiesPage, shellVars, desk>>

\* the textarea and the example buttons
TriageFormSetSymptoms ==
    /\ root = "App" /\ route = "/triage"
    /\ \E v \in SymptomTexts \ {triageForm.symptoms} :
        triageForm' = [triageForm EXCEPT !.symptoms = v]
    /\ pending' = Disturbed(pending)
    /\ UNCHANGED <<root, route, triageResult, facilities, loading, error,
                   dashboard, voiceInput, facilitiesPage, shellVars, desk>>

TriageFormSetLocation ==
    /\ root = "App" /\ route = "/triage"
    /\ \E v \in LocationTexts \ {triageForm.location} :
        triageForm' = [triageForm EXCEPT !.location = v]
    /\ pending' = Disturbed(pending)
    /\ UNCHANGED <<root, route, triageResult, facilities, loading, error,
                   dashboard, voiceInput, facilitiesPage, shellVars, desk>>

\* TriageForm.handleSubmit; the submit button is disabled while loading
\* Storage.getItem and Storage.setItem; getItem of an absent key is null
NoItems == [k \in {} |-> ""]

getItem(storage, key) ==
    IF key \in DOMAIN storage THEN Some(storage[key]) ELSE Null

setItem(storage, key, value) ==
    [k \in DOMAIN storage \cup {key} |-> IF k = key THEN value ELSE storage[k]]

\* TriageForm.handleSubmit, had it kept the submitted symptoms in sessionStorage
TriageFormHandleSubmitStored ==
    /\ root = "App" /\ route = "/triage" /\ ~loading
    /\ IF Trim(triageForm.symptoms) # <<>>
       THEN /\ HandleTriageSubmit(Trim(triageForm.symptoms),
                                  OrUndefined(Trim(triageForm.location)))
            /\ Mount("/results", facilities)
            /\ sessionStorage' =
                    setItem(sessionStorage, "symptoms", Trim(triageForm.symptoms))
       ELSE UNCHANGED <<loading, error, pending, route, dashboard, triageForm,
                        voiceInput, facilitiesPage, sessionStorage>>
    /\ UNCHANGED <<root, triageResult, facilities, disclaimer, language, desk>>

TriageFormHandleSubmit ==
    /\ root = "App" /\ route = "/triage" /\ ~loading
    /\ IF Trim(triageForm.symptoms) # <<>>
       THEN /\ HandleTriageSubmit(Trim(triageForm.symptoms),
                                  OrUndefined(Trim(triageForm.location)))
            /\ Mount("/results", facilities)
       ELSE UNCHANGED <<loading, error, pending, route, dashboard, triageForm,
                        voiceInput, facilitiesPage>>
    /\ UNCHANGED <<root, triageResult, facilities, shellVars, desk>>

\* the Facilities element, when mounted, copies a new facilities prop
FacilitiesPropEffect(fs) ==
    facilitiesPage' =
        IF route = "/facilities"
        THEN [facilitiesPage EXCEPT !.filteredFacilities = fs]
        ELSE facilitiesPage

\* App.handleTriageSubmit resumes, the fetch of /triage/text rejected:
\* catch, finally
\* the same, had the handler re-issued a rejected request once before giving up
TriageTextRejectedRetried ==
    /\ root = "App" /\ pending.url = "/triage/text"
    /\ IF pending.attempts < 2
       THEN /\ pending' = [pending EXCEPT !.attempts = @ + 1]
            /\ UNCHANGED <<error, loading>>
       ELSE /\ error' = Some(FetchRejected)
            /\ loading' = FALSE
            /\ pending' = NoRequest
    /\ UNCHANGED <<root, route, triageResult, facilities, dashboard, triageForm,
                   voiceInput, facilitiesPage, shellVars, desk>>

TriageTextRejected ==
    /\ root = "App" /\ pending.url = "/triage/text"
    /\ error' = Some(FetchRejected)
    /\ loading' = FALSE
    /\ pending' = NoRequest
    /\ UNCHANGED <<root, route, triageResult, facilities, dashboard, triageForm,
                   voiceInput, facilitiesPage, shellVars, desk>>

\* the same, !response.ok: throw, catch, finally
TriageTextNotOk ==
    /\ root = "App" /\ pending.url = "/triage/text"
    /\ error' = Some("Failed to analyze symptoms")
    /\ loading' = FALSE
    /\ pending' = NoRequest
    /\ UNCHANGED <<root, route, triageResult, facilities, dashboard, triageForm,
                   voiceInput, facilitiesPage, shellVars, desk>>

\* the same with the facilities fetched whether or not a location was given
TriageTextOkAlwaysFacilities ==
    /\ root = "App" /\ pending.url = "/triage/text"
    /\ \E a \in LLMAnswers :
        triageResult' = Some(TriageBackend(pending.symptoms, a))
    /\ pending' = [pending EXCEPT !.url = "/facilities"]
    /\ UNCHANGED <<root, route, loading, error, facilities, dashboard, triageForm,
                   voiceInput, facilitiesPage, shellVars, desk>>

\* the same, response.ok: setTriageResult, then the facilities fetch or finally
TriageTextOk ==
    /\ root = "App" /\ pending.url = "/triage/text"
    /\ \E a \in LLMAnswers :
        triageResult' = Some(TriageBackend(pending.symptoms, a))
    /\ IF pending.location # Null
       THEN /\ pending' = [pending EXCEPT !.url = "/facilities"]
            /\ UNCHANGED loading
       ELSE /\ pending' = NoRequest
            /\ loading' = FALSE
    /\ UNCHANGED <<root, route, error, facilities, dashboard, triageForm,
                   voiceInput, facilitiesPage, shellVars, desk>>

\* App.handleTriageSubmit resumes with the answer to POST /facilities
TriageFacilitiesResponse ==
    /\ root = "App" /\ pending.url = "/facilities"
    /\ \/ \* fetch rejects: catch
          /\ error' = Some(FetchRejected)
          /\ UNCHANGED <<facilities, facilitiesPage>>
       \/ \* !facilitiesResponse.ok: nothing is set
          UNCHANGED <<error, facilities, facilitiesPage>>
       \/ \* facilitiesResponse.ok: setFacilities
          \E n \in 0..MaxFacilities :
            /\ facilities' = FacilitiesBackend(n)
            /\ FacilitiesPropEffect(FacilitiesBackend(n))
            /\ UNCHANGED error
    /\ loading' = FALSE
    /\ pending' = NoRequest
    /\ UNCHANGED <<root, route, triageResult, dashboard, triageForm, voiceInput,
                   shellVars, desk>>

-----------------------------------------------------------------------------
(* App: voice triage *)

\* the language options of VoiceInput
VoiceLanguages == {"en", "hi", "bn", "te", "mr", "ta", "gu", "ur", "kn", "or"}

\* the <select> of VoiceInput, disabled while recording
VoiceInputSetLanguage ==
    /\ root = "App" /\ route = "/voice" /\ ~voiceInput.isRecording
    /\ \E l \in VoiceLanguages \ {voiceInput.selectedLanguage} :
        voiceInput' = [voiceInput EXCEPT !.selectedLanguage = l]
    /\ pending' = Disturbed(pending)
    /\ UNCHANGED <<root, route, triageResult, facilities, loading, error,
                   dashboard, triageForm, facilitiesPage, shellVars, desk>>

\* VoiceInput.startRecording, the microphone granted; the button is shown
\* while not recording and disabled while loading
VoiceInputStartRecording ==
    /\ root = "App" /\ route = "/voice"
    /\ ~voiceInput.isRecording /\ ~loading
    /\ voiceInput' = [voiceInput EXCEPT !.isRecording = TRUE, !.recordingTime = 0]
    /\ pending' = Disturbed(pending)
    /\ UNCHANGED <<root, route, triageResult, facilities, loading, error,
                   dashboard, triageForm, facilitiesPage, shellVars, desk>>

\* the setInterval callback of startRecording
VoiceInputTick ==
    /\ root = "App" /\ route = "/voice"
    /\ voiceInput.isRecording
    /\ voiceInput.recordingTime < MaxTicks
    /\ voiceInput' = [voiceInput EXCEPT !.recordingTime = @ + 1]
    /\ UNCHANGED <<root, route, triageResult, facilities, loading, error, pending,
                   dashboard, triageForm, facilitiesPage, shellVars, desk>>

\* the seconds after which the recording tips say a recording stops by itself
AutoStopSeconds == 30

\* the setInterval callback of startRecording, followed past AutoStopSeconds
VoiceInputTimer ==
    /\ root = "App" /\ route = "/voice"
    /\ voiceInput.isRecording
    /\ voiceInput.recordingTime < AutoStopSeconds + MaxTicks
    /\ voiceInput' = [voiceInput EXCEPT !.recordingTime = @ + 1]
    /\ UNCHANGED <<root, route, triageResult, facilities, loading, error, pending,
                   dashboard, triageForm, facilitiesPage, shellVars, desk>>

\* VoiceInput.stopRecording and the recorder's onstop, which sets the blob
VoiceInputStopRecording ==
    /\ root = "App" /\ route = "/voice"
    /\ voiceInput.isRecording
    /\ voiceInput' = [voiceInput EXCEPT !.isRecording = FALSE,
                                        !.audioBlob = Some("audio/wav")]
    /\ pending' = Disturbed(pending)
    /\ UNCHANGED <<root, route, triageResult, facilities, loading, error,
                   dashboard, triageForm, facilitiesPage, shellVars, desk>>

\* the synchronous part of App.handleVoiceSubmit, up to the await
HandleVoiceSubmit(audioBlob, lang) ==
    /\ loading' = TRUE
    /\ error' = Null
    /\ pending' = [NoRequest EXCEPT !.url = "/triage/voice",
                                    !.language = lang,
                                    !.duration = <<"1", "0">>,
                                    !.attempts = 1]

\* VoiceInput.handleSubmit; the button is disabled without a blob and while loading
VoiceInputHandleSubmit ==
    /\ root = "App" /\ route = "/voice" /\ ~loading
    /\ voiceInput.audioBlob # Null
    /\ HandleVoiceSubmit(voiceInput.audioBlob, voiceInput.selectedLanguage)
    /\ Mount("/results", facilities)
    /\ UNCHANGED <<root, triageResult, facilities, shellVars, desk>>

\* App.handleVoiceSubmit resumes, the fetch of /triage/voice rejected
TriageVoiceRejected ==
    /\ root = "App" /\ pending.url = "/triage/voice"
    /\ error' = Some(FetchRejected)
    /\ loading' = FALSE
    /\ pending' = NoRequest
    /\ UNCHANGED <<root, route, triageResult, facilities, dashboard, triageForm,
                   voiceInput, facilitiesPage, shellVars, desk>>

\* the same, !response.ok
TriageVoiceNotOk ==
    /\ root = "App" /\ pending.url = "/triage/voice"
    /\ error' = Some("Failed to process voice input")
    /\ loading' = FALSE
    /\ pending' = NoRequest
    /\ UNCHANGED <<root, route, triageResult, facilities, dashboard, triageForm,
                   voiceInput, facilitiesPage, shellVars, desk>>

\* the same, response.ok: setTriageResult(result.triage_result)
TriageVoiceOk ==
    /\ root = "App" /\ pending.url = "/triage/voice"
    /\ \E r \in BackendResults : triageResult' = Some(r)
    /\ loading' = FALSE
    /\ pending' = NoRequest
    /\ UNCHANGED <<root, route, error, facilities, dashboard, triageForm,
                   voiceInput, facilitiesPage, shellVars, desk>>

-----------------------------------------------------------------------------
(* App: the Facilities page *)

FacilitiesSetSearchLocation ==
    /\ root = "App" /\ route = "/facilities"
    /\ \E v \in LocationTexts \ {facilitiesPage.searchLocation} :
        facilitiesPage' = [facilitiesPage EXCEPT !.searchLocation = v]
    /\ pending' = Disturbed(pending)
    /\ UNCHANGED <<root, route, triageResult, facilities, loading, error,
                   dashboard, triageForm, voiceInput, shellVars, desk>>

\* Facilities.handleSearch up to its await; the form is not rendered while loading
FacilitiesHandleSearch ==
    /\ root = "App" /\ route = "/facilities" /\ ~loading
    /\ Len(facilitiesPage.searches) < MaxInFlight
    /\ IF Trim(facilitiesPage.searchLocation) # <<>>
       THEN facilitiesPage' =
                [facilitiesPage EXCEPT
                    !.searches = Append(@, facilitiesPage.searchLocation)]
       ELSE UNCHANGED facilitiesPage
    /\ pending' = Disturbed(pending)
    /\ UNCHANGED <<root, route, triageResult, facilities, loading, error,
                   dashboard, triageForm, voiceInput, shellVars, desk>>

RemoveAt(s, i) == SubSeq(s, 1, i - 1) \o SubSeq(s, i + 1, Len(s))

\* the response's data stored farthest first
SearchResultReversed(data) == [i \in 1..Len(data) |-> data[Len(data) + 1 - i]]

\* what Facilities.handleSearch stores of the response's data
SearchResult(data) == data

\* Facilities.handleSearch resumes with the answer to its POST /facilities
FacilitiesSearchResponse ==
    /\ root = "App" /\ route = "/facilities"
    /\ \E i \in 1..Len(facilitiesPage.searches) :
        \/ \* fetch rejects or !response.ok: the list is kept
           facilitiesPage' =
               [facilitiesPage EXCEPT !.searches = RemoveAt(@, i)]
        \/ \* response.ok: setFilteredFacilities(data)
           \E n \in 0..MaxFacilities :
             facilitiesPage' =
                 [facilitiesPage EXCEPT
                     !.searches = RemoveAt(@, i),
                     !.filteredFacilities = SearchResult(FacilitiesBackend(n))]
    /\ UNCHANGED <<root, route, triageResult, facilities, loading, error, pending,
                   dashboard, triageForm, voiceInput, shellVars, desk>>

\* the list the Facilities page displays; nothing while loading
FacilitiesListed ==
    IF root = "App" /\ route = "/facilities" /\ ~loading
    THEN facilitiesPage.filteredFacilities
    ELSE <<>>

-----------------------------------------------------------------------------
(* AroviaHealthDesk: the text triage tab.  The payload's coordinates, which *)
(* no other state depends on, are left out.                                 *)

\* the tabs whose click starts no fetch
DeskTabs == {"text-triage", "voice-triage", "facilities"}

\* a tab button's onClick
DeskSelectTab ==
    /\ root = "Desk"
    /\ \E t \in DeskTabs :
        desk' = [desk EXCEPT !.activeTab = t, !.result = Null, !.error = Null,
                             !.audioBlob = Null]
    /\ UNCHANGED <<root, appVars, shellVars>>

DeskSetTextSymptoms ==
    /\ root = "Desk" /\ desk.activeTab = "text-triage"
    /\ \E v \in SymptomTexts \ {desk.textSymptoms} :
        desk' = [desk EXCEPT !.textSymptoms = v]
    /\ UNCHANGED <<root, appVars, shellVars>>

\* the location input of the text triage and of the facilities tab
DeskSetLocation ==
    /\ root = "Desk" /\ desk.activeTab \in {"text-triage", "facilities"}
    /\ \E v \in LocationTexts \ {desk.location} :
        desk' = [desk EXCEPT !.location = v]
    /\ UNCHANGED <<root, appVars, shellVars>>

\* AroviaHealthDesk.handleTextTriage up to its await; the button is disabled
\* while loading
DeskHandleTextTriage ==
    /\ root = "Desk" /\ desk.activeTab = "text-triage" /\ ~desk.loading
    /\ IF Trim(desk.textSymptoms) = <<>>
       THEN desk' = [desk EXCEPT !.error = Some("Please enter your symptoms")]
       ELSE desk' = [desk EXCEPT
                        !.loading = TRUE, !.error = Null, !.result = Null,
                        !.pending = [NoRequest EXCEPT
                                        !.url = "/triage/text",
                                        !.symptoms = desk.textSymptoms,
                                        !.location = OrUndefined(desk.location),
                                        !.attempts = 1]]
    /\ UNCHANGED <<root, appVars, shellVars>>

\* AroviaHealthDesk.handleTextTriage resumes with the answer to POST /triage/text
DeskTextResponse ==
    /\ root = "Desk" /\ desk.pending.url = "/triage/text"
    /\ \/ \* fetch rejects
          desk' = [desk EXCEPT !.error = Some(FetchRejected),
                               !.loading = FALSE, !.pending = NoRequest]
       \/ \* !response.ok
          desk' = [desk EXCEPT !.error = Some("Failed to analyze symptoms"),
                               !.loading = FALSE, !.pending = NoRequest]
       \/ \* response.ok: setResult(data)
          \E a \in LLMAnswers :
            desk' = [desk EXCEPT
                        !.result = Some(TriageBackend(desk.pending.symptoms, a)),
                        !.loading = FALSE, !.pending = NoRequest]
    /\ UNCHANGED <<root, appVars, shellVars>>

\* Number.prototype.toString of a natural number, as its decimal digits
Digit(d) == <<"0", "1", "2", "3", "4", "5", "6", "7", "8", "9">>[d + 1]

RECURSIVE DecimalString(_)
DecimalString(n) ==
    IF n < 10 THEN <<Digit(n)>>
    ELSE DecimalString(n \div 10) \o <<Digit(n % 10)>>

\* String.prototype.padStart(2, '0')
PadStart2(str) == IF Len(str) < 2 THEN <<"0">> \o str ELSE str

formatDuration(seconds) ==
    DecimalString(seconds \div 60) \o <<":">> \o PadStart2(DecimalString(seconds % 60))

\* the recording box of the voice tab
DeskVoiceView(d) ==
    IF d.isRecording
    THEN [screen |-> "recording", duration |-> formatDuration(d.recordingDuration)]
    ELSE IF d.audioBlob # Null
    THEN [screen |-> "Recording Complete!",
          duration |-> formatDuration(d.recordingDuration)]
    ELSE [screen |-> "start", duration |-> <<>>]

\* the options of the voice tab's language <select>
DeskLanguages ==
    {"hi", "en", "bn", "te", "mr", "ta", "gu", "ur", "kn", "or", "ml", "pa"}

DeskSetLanguage ==
    /\ root = "Desk" /\ desk.activeTab = "voice-triage"
    /\ \E l \in DeskLanguages \ {desk.language} :
        desk' = [desk EXCEPT !.language = l]
    /\ UNCHANGED <<root, appVars, shellVars>>

\* AroviaHealthDesk.startRecording; getUserMedia grants the microphone or
\* rejects.  desk.ticks counts the timer's ticks of the recording that starts
\* here; the component keeps no such count, the properties read it.
DeskStartRecording ==
    /\ root = "Desk" /\ desk.activeTab = "voice-triage"
    /\ ~desk.isRecording /\ desk.audioBlob = Null
    /\ \/ desk' = [desk EXCEPT !.isRecording = TRUE, !.error = Null,
                               !.audioBlob = Null, !.ticks = 0]
       \/ desk' = [desk EXCEPT !.error = Some("Failed to access microphone")]
    /\ UNCHANGED <<root, appVars, shellVars>>

\* the interval the isRecording effect sets while recording
DeskTimer ==
    /\ root = "Desk" /\ desk.isRecording
    /\ desk.recordingDuration < MaxTicks
    /\ desk' = [desk EXCEPT !.recordingDuration = @ + 1, !.ticks = @ + 1]
    /\ UNCHANGED <<root, appVars, shellVars>>

\* AroviaHealthDesk.stopRecording, the recorder's onstop, and the isRecording
\* effect, whose else branch clears the interval and sets the duration to 0
DeskStopRecording ==
    /\ root = "Desk" /\ desk.activeTab = "voice-triage"
    /\ desk.isRecording
    /\ desk' = [desk EXCEPT !.isRecording = FALSE,
                            !.audioBlob = Some("audio/webm"),
                            !.recordingDuration = 0]
    /\ UNCHANGED <<root, appVars, shellVars>>

\* the Record Again button
DeskRecordAgain ==
    /\ root = "Desk" /\ desk.activeTab = "voice-triage"
    /\ DeskVoiceView(desk).screen = "Recording Complete!"
    /\ desk' = [desk EXCEPT !.audioBlob = Null, !.recordingDuration = 0]
    /\ UNCHANGED <<root, appVars, shellVars>>

\* AroviaHealthDesk.handleVoiceTriage up to its await, from the Analyze Voice
\* button, which is shown with a blob and disabled while loading
DeskHandleVoiceTriage ==
    /\ root = "Desk" /\ desk.activeTab = "voice-triage"
    /\ DeskVoiceView(desk).screen = "Recording Complete!"
    /\ ~desk.loading
    /\ desk' = [desk EXCEPT
                    !.loading = TRUE, !.error = Null, !.result = Null,
                    !.pending = [NoRequest EXCEPT
                                    !.url = "/triage/voice",
                                    !.language = desk.language,
                                    !.duration =
                                        DecimalString(desk.recordingDuration),
                                    !.attempts = 1]]
    /\ UNCHANGED <<root, appVars, shellVars>>

\* AroviaHealthDesk.handleVoiceTriage resumes with the answer to
\* POST /triage/voice
DeskVoiceResponse ==
    /\ root = "Desk" /\ desk.pending.url = "/triage/voice"
    /\ \/ desk' = [desk EXCEPT !.error = Some(FetchRejected),
                               !.loading = FALSE, !.pending = NoRequest]
       \/ desk' = [desk EXCEPT !.error = Some("Failed to analyze voice input"),
                               !.loading = FALSE, !.pending = NoRequest]
       \/ \E r \in BackendResults :
            desk' = [desk EXCEPT !.result = Some(r),
                                 !.loading = FALSE, !.pending = NoRequest]
    /\ UNCHANGED <<root, appVars, shellVars>>

-----------------------------------------------------------------------------
(* i18n: the resources and the lookup of a key.  An object of strings is a  *)
(* function from key paths to texts.  A string that is a language's own     *)
(* translation is written as the language code followed by its path; the    *)
(* strings of commonFeatures are written out.                               *)

\* the object { k: obj } as a function from paths
Under(k, obj) ==
    [p \in {<<k>> \o q : q \in DOMAIN obj} |-> obj[Tail(p)]]

\* the own strings of a language: title, nav and dashboard
OwnPaths ==
    {<<"title">>,
     <<"nav", "dashboard">>, <<"nav", "triage">>, <<"nav", "voice">>,
     <<"nav", "facilities">>, <<"nav", "results">>,
     <<"dashboard", "welcome">>, <<"dashboard", "description">>,
     <<"dashboard", "start_triage">>, <<"dashboard", "voice_assistant">>}

OwnStrings(lng) == [p \in OwnPaths |-> <<lng>> \o p]

IndicLanguages == {"bn", "te", "mr", "ta", "gu", "kn", "ml", "pa", "ur", "or"}

indicTranslations == [lng \in IndicLanguages |-> OwnStrings(lng)]

commonFeatures ==
    Under("features",
          <<"instant_analysis">> :> <<"Instant Analysis (AI)">>
          @@ <<"instant_analysis_desc">> :> <<"AI-based Triage">>
          @@ <<"languages">> :> <<"Multilingual">>
          @@ <<"languages_desc">> :> <<"Supports 22+ Languages">>
          @@ <<"secure">> :> <<"Secure">>
          @@ <<"secure_desc">> :> <<"Data Privacy Protected">>)
    @@
    Under("disclaimer",
          <<"title">> :> <<"Medical Disclaimer">>
          @@ <<"text_full">> :>
               <<"This application uses Artificial Intelligence to provide preliminary health triage recommendations. It is NOT a substitute for professional medical advice, diagnosis, or treatment. Always seek the advice of your physician or other qualified health provider with any questions you may have regarding a medical condition. If you think you may have a medical emergency, call your doctor or emergency services immediately.">>
          @@ <<"text_short">> :>
               <<"AI-powered assistant. Not a substitute for professional medical advice.">>
          @@ <<"accept">> :> <<"I Understand & Enter">>
          @@ <<"read_more">> :> <<"Read Full Disclaimer">>)

\* the paths of an object that lie under the key k, k taken off
Within(k, obj) ==
    LET ps == {p \in DOMAIN obj : Head(p) = k}
    IN  [q \in {Tail(p) : p \in ps} |-> obj[<<k>> \o q]]

\* a translation: title, nav, and dashboard with commonFeatures spread into it
Translation(own) ==
    LET top == {p \in DOMAIN own : Head(p) # "dashboard"}
    IN  [p \in top |-> own[p]]
        @@ Under("dashboard", commonFeatures @@ Within("dashboard", own))

buildResources ==
    [lng \in {"en", "es", "hi"} |-> Translation(OwnStrings(lng))]
    @@ [lng \in IndicLanguages |-> Translation(indicTranslations[lng])]

fallbackLng == "en"

\* a key's path: the key split at its dots
RECURSIVE KeyPath(_)
KeyPath(key) ==
    IF key = <<>> THEN <<>>
    ELSE IF Head(key) = "." THEN KeyPath(Tail(key))
    ELSE <<Head(key)>> \o KeyPath(Tail(key))

\* the string resources hold for a key in one language, Null when none
GetResource(resources, lng, key) ==
    IF lng \in DOMAIN resources /\ KeyPath(key) \in DOMAIN resources[lng]
    THEN Some(resources[lng][KeyPath(key)])
    ELSE Null

\* t(key) in language lng: the language, then fallbackLng, then the key itself
Translate(resources, lng, key) ==
    IF GetResource(resources, lng, key) # Null
    THEN GetResource(resources, lng, key)[1]
    ELSE IF GetResource(resources, fallbackLng, key) # Null
    THEN GetResource(resources, fallbackLng, key)[1]
    ELSE key

t(key) == Translate(buildResources, language, key)

-----------------------------------------------------------------------------
(* Disclaimer and Header *)

\* which of its three forms the Disclaimer component renders
DisclaimerView(d) ==
    IF ~d.isAccepted THEN "splash"
    ELSE IF ~d.showFullInFooter THEN "footer-bar"
    ELSE "footer-full"

\* the translation keys each form requests
DisclaimerKeys(view) ==
    CASE view = "splash" ->
            {<<"disclaimer", ".", "title">>, <<"disclaimer", ".", "text_full">>,
             <<"disclaimer", ".", "accept">>}
      [] view = "footer-bar" ->
            {<<"disclaimer", ".", "text_short">>,
             <<"disclaimer", ".", "read_more">>}
      [] view = "footer-full" ->
            {<<"disclaimer", ".", "title">>, <<"disclaimer", ".", "text_full">>}
      [] OTHER -> {}

\* the texts the Disclaimer component has on screen, by key
DisclaimerTexts ==
    [key \in DisclaimerKeys(DisclaimerView(disclaimer)) |-> t(key)]

\* the language options of Header
HeaderLanguages ==
    {"en", "es", "hi", "bn", "te", "mr", "ta", "gu", "kn", "ml", "pa", "or", "ur"}

\* what App has on screen: each component it renders, with the form it takes
AppScreen ==
    [c \in AppRender(route) |->
        CASE c = "Disclaimer" -> DisclaimerView(disclaimer)
          [] c = "Results" -> ResultsOnScreen.screen
          [] OTHER -> "shown"]

\* the useEffect of Disclaimer, once after it mounts
\* the mount effect, had it not read sessionStorage
DisclaimerMountEffectNoRead ==
    /\ root = "App" /\ ~disclaimer.mounted
    /\ disclaimer' = [disclaimer EXCEPT !.mounted = TRUE]
    /\ UNCHANGED <<root, appVars, sessionStorage, language, desk>>

DisclaimerMountEffect ==
    /\ root = "App" /\ ~disclaimer.mounted
    /\ disclaimer' =
        [disclaimer EXCEPT
            !.mounted = TRUE,
            !.isAccepted =
                IF getItem(sessionStorage, "disclaimerAccepted") = Some("true")
                THEN TRUE ELSE @]
    /\ UNCHANGED <<root, appVars, sessionStorage, language, desk>>

\* Disclaimer.handleAccept, the button of the splash
DisclaimerHandleAccept ==
    /\ root = "App" /\ ~disclaimer.isAccepted
    /\ disclaimer' = [disclaimer EXCEPT !.isAccepted = TRUE]
    /\ sessionStorage' = setItem(sessionStorage, "disclaimerAccepted", "true")
    /\ UNCHANGED <<root, appVars, language, desk>>

\* the "Read Full Disclaimer" button of the footer bar
DisclaimerReadMore ==
    /\ root = "App" /\ DisclaimerView(disclaimer) = "footer-bar"
    /\ disclaimer' = [disclaimer EXCEPT !.showFullInFooter = TRUE]
    /\ UNCHANGED <<root, appVars, sessionStorage, language, desk>>

\* the close button of the expanded footer
DisclaimerCloseFull ==
    /\ root = "App" /\ DisclaimerView(disclaimer) = "footer-full"
    /\ disclaimer' = [disclaimer EXCEPT !.showFullInFooter = FALSE]
    /\ UNCHANGED <<root, appVars, sessionStorage, language, desk>>

\* Header.changeLanguage
HeaderChangeLanguage ==
    /\ root = "App"
    /\ \E lng \in HeaderLanguages \ {language} : language' = lng
    /\ UNCHANGED <<root, appVars, disclaimer, sessionStorage, desk>>

\* the page is loaded anew at the path r of the same tab: every component
\* starts over, sessionStorage and the stored language stay
Reload ==
    /\ root = "App"
    /\ \E r \in Routes : Mount(r, <<>>)
    /\ triageResult' = Null
    /\ facilities' = <<>>
    /\ loading' = FALSE
    /\ error' = Null
    /\ pending' = NoRequest
    /\ disclaimer' = DisclaimerInit
    /\ UNCHANGED <<root, sessionStorage, language, desk>>

-----------------------------------------------------------------------------
(* The triage flows of App and of AroviaHealthDesk *)

InitApp ==
    /\ route = "/"
    /\ triageResult = Null
    /\ facilities = <<>>
    /\ loading = FALSE
    /\ error = Null
    /\ pending = NoRequest
    /\ dashboard = DashboardInit
    /\ triageForm = TriageFormInit
    /\ voiceInput = VoiceInputInit
    /\ facilitiesPage = FacilitiesPageInit(<<>>)

InitShell ==
    /\ disclaimer = DisclaimerInit
    /\ sessionStorage = NoItems
    /\ language = "en"

Init ==
    /\ root \in {"App", "Desk"}
    /\ InitApp
    /\ InitShell
    /\ desk = DeskInit

Next ==
    \/ Navigate
    \/ DashboardSetSymptoms
    \/ DashboardSetLocation
    \/ DashboardHandleSubmit
    \/ TriageFormSetSymptoms
    \/ TriageFormSetLocation
    \/ TriageFormHandleSubmit
    \/ TriageTextRejected
    \/ TriageTextNotOk
    \/ TriageTextOk
    \/ TriageFacilitiesResponse
    \/ VoiceInputSetLanguage
    \/ VoiceInputStartRecording
    \/ VoiceInputTick
    \/ VoiceInputStopRecording
    \/ VoiceInputHandleSubmit
    \/ TriageVoiceRejected
    \/ TriageVoiceNotOk
    \/ TriageVoiceOk
    \/ DeskSelectTab
    \/ DeskSetTextSymptoms
    \/ DeskSetLocation
    \/ DeskHandleTextTriage
    \/ DeskTextResponse

Spec == Init /\ [][Next]_vars

-----------------------------------------------------------------------------
(* The Facilities page, entered with any list App can hold and with App's *)
(* own facilities request answered or still awaited                       *)

InitFacilities ==
    /\ root = "App"
    /\ route = "/"
    /\ \E n \in 0..MaxFacilities : facilities = FacilitiesBackend(n)
    /\ \/ /\ loading = FALSE
          /\ pending = NoRequest
          /\ triageResult = Null
       \/ /\ loading = TRUE
          /\ pending = [NoRequest EXCEPT !.url = "/facilities",
                                         !.location = Some(<<"Pune">>),
                                         !.quiet = FALSE,
                                         !.attempts = 1]
          /\ \E r \in BackendResults : triageResult = Some(r)
    /\ error = Null
    /\ dashboard = DashboardInit
    /\ triageForm = TriageFormInit
    /\ voiceInput = VoiceInputInit
    /\ facilitiesPage = FacilitiesPageInit(<<>>)
    /\ InitShell
    /\ desk = DeskInit

NextFacilities ==
    \/ Navigate
    \/ TriageFacilitiesResponse
    \/ FacilitiesSetSearchLocation
    \/ FacilitiesHandleSearch
    \/ FacilitiesSearchResponse

SpecFacilities == InitFacilities /\ [][NextFacilities]_vars

-----------------------------------------------------------------------------
(* The shell of App: Disclaimer, Header, the routes *)

InitAppShell ==
    /\ root = "App"
    /\ InitApp
    /\ InitShell
    /\ desk = DeskInit

NextShell ==
    \/ Navigate
    \/ Reload
    \/ DisclaimerMountEffect
    \/ DisclaimerHandleAccept
    \/ DisclaimerReadMore
    \/ DisclaimerCloseFull
    \/ HeaderChangeLanguage

SpecShell == InitAppShell /\ [][NextShell]_vars

-----------------------------------------------------------------------------
(* Properties *)

\* a step with which App.handleTriageSubmit returns, /triage/text answered OK
TriageSettled ==
    \/ TriageTextOk /\ pending' = NoRequest
    \/ TriageFacilitiesResponse

\* C1: once non-blank symptoms are submitted from Dashboard or TriageForm and
\* /triage/text is answered OK, the handler returning with no user action
\* since the submission leaves the Results view on screen with the result.
C1_ResultsShownAfterSubmit ==
    [][(pending.quiet /\ TriageSettled)
        => (ResultsOnScreen.screen = "result")']_vars

\* C2: a /triage/text request sent by App or by AroviaHealthDesk carries
\* symptoms with a non-whitespace character, and from a state whose form holds
\* blank symptoms no step sends a request or changes loading.
C2_SymptomsRequired ==
    [][LET blankApp ==
               /\ root = "App" /\ ~loading
               /\ \/ route = "/" /\ Trim(dashboard.symptoms) = <<>>
                  \/ route = "/triage" /\ Trim(triageForm.symptoms) = <<>>
           blankDesk ==
               /\ root = "Desk" /\ ~desk.loading
               /\ desk.activeTab = "text-triage"
               /\ Trim(desk.textSymptoms) = <<>>
       IN  /\ (pending'.url = "/triage/text" /\ pending.url = "none")
               => Trim(pending'.symptoms) # <<>>
           /\ (desk'.pending.url = "/triage/text" /\ desk.pending.url = "none")
               => Trim(desk'.pending.symptoms) # <<>>
           /\ blankApp => (loading' = loading /\ pending'.url = "none")
           /\ blankDesk => (desk'.loading = desk.loading
                            /\ desk'.pending = desk.pending)]_vars

\* C2 witness: AroviaHealthDesk has refused a blank submission, nothing sent
C2_BlankSubmissionRefused ==
    /\ root = "Desk"
    /\ Trim(desk.textSymptoms) = <<>> /\ desk.textSymptoms # <<>>
    /\ desk.error = Some("Please enter your symptoms")
    /\ desk.pending = NoRequest /\ ~desk.loading

\* the error is on screen: the error screen of Results, or the banner of the
\* form the route shows
ErrorOnScreen ==
    CASE route = "/results" -> ResultsOnScreen.screen = "error"
      [] route = "/" -> DashboardErrorBanner(error)
      [] route = "/triage" -> TriageFormErrorBanner(error)
      [] route = "/voice" -> VoiceInputErrorBanner(error)
      [] OTHER -> FALSE

\* C3: when a text or voice triage request of App fails, by a rejected fetch
\* or a status that is not OK, App ends with a non-null error and loading
\* false, the Results element for that state is the error screen and not a
\* triage result, and with no user action since the submission the error is
\* on screen.
C3_ErrorsSurfaced ==
    [][(TriageTextRejected \/ TriageTextNotOk
        \/ TriageVoiceRejected \/ TriageVoiceNotOk)
        => /\ error' # Null
           /\ ~loading'
           /\ (ResultsView.screen = "error")'
           /\ pending.quiet => ErrorOnScreen']_vars

\* C3 witness: Results on screen after a failed request, an earlier result
\* still held by App, showing the error screen
C3_ErrorScreenOverStaleResult ==
    /\ root = "App" /\ route = "/results"
    /\ error # Null /\ ~loading /\ triageResult # Null
    /\ ResultsOnScreen.screen = "error"

\* C4: on every route App renders the Disclaimer component, as the splash
\* while not accepted and as the footer once accepted.
C4_DisclaimerOnEveryScreen ==
    root = "App" =>
        /\ route \in Routes
        /\ "Disclaimer" \in DOMAIN AppScreen
        /\ AppScreen["Disclaimer"] =
              IF disclaimer.isAccepted
              THEN (IF disclaimer.showFullInFooter THEN "footer-full"
                    ELSE "footer-bar")
              ELSE "splash"

\* C4 witness: the results route, loaded after acceptance, showing the footer
C4_FooterOnResults ==
    /\ root = "App" /\ route = "/results"
    /\ disclaimer.isAccepted
    /\ AppScreen["Disclaimer"] = "footer-bar"

\* C5: in every language of the Header every key the Disclaimer component has
\* on screen resolves to the string commonFeatures.disclaimer holds for it.
C5_DisclaimerTextsResolve ==
    (root = "App" /\ language \in HeaderLanguages) =>
        \A key \in DOMAIN DisclaimerTexts :
            /\ KeyPath(key) \in DOMAIN commonFeatures
            /\ DisclaimerTexts[key] = commonFeatures[KeyPath(key)]

\* C6: when the submitted symptoms contain a phrase of the emergency keyword
\* table and the handler returns with no user action since the submission,
\* the result on screen has urgency 10 and the call-108 alert.
C6_KeywordEscalation ==
    [][(pending.quiet /\ TriageSettled /\ KeywordDetected(pending.symptoms))
        => /\ triageResult'[1].urgency_score = 10
           /\ (ResultsOnScreen.screen = "result")'
           /\ (ResultsOnScreen.emergencyAlert)']_vars

C8_UrgencyBands ==
    /\ ResultsView.screen = "result" =>
          /\ ResultsView.urgencyColor = DeskUrgencyColor(ResultsView.score)
          /\ ResultsView.score \in DOMAIN ScenarioColor =>
                /\ ResultsView.urgencyColor = ScenarioColor[ResultsView.score]
                /\ ResultsView.urgencyText = ScenarioText[ResultsView.score]
    /\ DeskRenderTriageResult(desk.result).screen = "result" =>
          LET v == DeskRenderTriageResult(desk.result)
          IN  /\ v.urgencyColor = getUrgencyColor(v.score)
              /\ v.score \in DOMAIN ScenarioColor =>
                    v.urgencyColor = ScenarioColor[v.score]

\* the elements of a sequence
Range(seq) == {seq[i] : i \in 1..Len(seq)}

\* C9: Results lists at most three facilities, and none that App holds and
\* Results leaves out is nearer than one it lists.
C9_TopThreeNearest ==
    LET listed == ResultsView.facilitiesListed
    IN  /\ Len(listed) <= 3
        /\ ResultsView.screen = "result" =>
              /\ Range(listed) \subseteq Range(facilities)
              /\ Len(listed) = (IF Len(facilities) < 3 THEN Len(facilities) ELSE 3)
              /\ \A f \in Range(listed) :
                    \A g \in Range(facilities) \ Range(listed) :
                        f.distance_km <= g.distance_km

\* C9 witness: Results on screen listing three of more than three facilities
C9_ThreeOfMoreListed ==
    /\ ResultsOnScreen.screen = "result"
    /\ Len(facilities) > 3
    /\ Len(ResultsOnScreen.facilitiesListed) = 3

\* C10: the list the Facilities page displays is in non-decreasing distance_km.
C10_FacilitiesSortedByDistance ==
    \A i \in 1..Len(FacilitiesListed) : \A j \in i..Len(FacilitiesListed) :
        FacilitiesListed[i].distance_km <= FacilitiesListed[j].distance_km

\* C10 witness: the page displays a searched list of several facilities whose
\* order is not the order the mapping service found them in
C10_SearchedListShown ==
    /\ root = "App" /\ route = "/facilities"
    /\ facilitiesPage.filteredFacilities # facilities
    /\ Len(FacilitiesListed) >= 3
    /\ FacilitiesListed # FoundFacilities(Len(FacilitiesListed))

\* the location typed into the form of the current route
FormLocation ==
    IF route = "/" THEN dashboard.location ELSE triageForm.location

\* C11: App.handleTriageSubmit sends POST /facilities exactly when /triage/text
\* was answered OK and the trimmed location of the submitted form is not
\* empty; it sends none at submission and none after a failed triage request.
C11_FacilitiesIffLocation ==
    [][/\ (pending.url = "none" /\ pending'.url # "none")
            => /\ pending'.url # "/facilities"
               /\ pending'.url = "/triage/text"
                    => (pending'.location # Null <=> Trim(FormLocation) # <<>>)
       /\ (pending'.url = "/facilities" /\ pending.url # "/facilities")
            => (TriageTextOk /\ pending.location # Null)
       /\ TriageTextOk
            => (pending'.url = "/facilities" <=> pending.location # Null)
       /\ (TriageTextRejected \/ TriageTextNotOk) => pending'.url = "none"]_vars

\* C11 witness: the facilities request in flight, the triage result set and
\* the location the one typed with a blank after it
C11_FacilitiesRequested ==
    /\ root = "App" /\ loading
    /\ pending.url = "/facilities" /\ pending.location = Some(<<"Pune">>)
    /\ triageResult # Null

-----------------------------------------------------------------------------
(* Voice recording, its timer followed past the announced automatic stop *)

InitVoice ==
    /\ root \in {"App", "Desk"}
    /\ InitApp
    /\ InitShell
    /\ desk = DeskInit

NextVoice ==
    \/ Navigate
    \/ VoiceInputStartRecording
    \/ VoiceInputTimer
    \/ VoiceInputStopRecording
    \/ VoiceInputHandleSubmit
    \/ TriageVoiceRejected
    \/ TriageVoiceNotOk
    \/ TriageVoiceOk
    \/ DeskSelectTab
    \/ DeskSetLanguage
    \/ DeskStartRecording
    \/ DeskTimer
    \/ DeskStopRecording
    \/ DeskRecordAgain
    \/ DeskHandleVoiceTriage
    \/ DeskVoiceResponse

SpecVoice == InitVoice /\ [][NextVoice]_vars

\* C12: a recording of VoiceInput does not run past 30 seconds: once the timer
\* has ticked 30 times the recording has stopped and its blob is available.
C12_RecordingStopsAfter30Seconds ==
    (root = "App" /\ route = "/voice"
     /\ voiceInput.recordingTime >= AutoStopSeconds)
        => (~voiceInput.isRecording /\ voiceInput.audioBlob # Null)

\* C13: the duration sent to /triage/voice, by App.handleVoiceSubmit and by
\* AroviaHealthDesk.handleVoiceTriage, and the duration shown under
\* 'Recording Complete!' are the number of timer ticks between the start and
\* the stop of the recording.
C13_DurationIsTickCount ==
    [][/\ (pending.url = "none" /\ pending'.url = "/triage/voice")
            => pending'.duration = DecimalString(voiceInput.recordingTime)
       /\ (desk.pending.url = "none" /\ desk'.pending.url = "/triage/voice")
            => desk'.pending.duration = DecimalString(desk.ticks)
       /\ (DeskVoiceView(desk).screen = "Recording Complete!")'
            => (DeskVoiceView(desk).duration = formatDuration(desk.ticks))']_vars

-----------------------------------------------------------------------------
(* The submit handlers together with the Disclaimer, for what reaches the   *)
(* browser's storage.  No component calls localStorage, so sessionStorage   *)
(* is the storage the components write.                                     *)

NextPrivacy ==
    \/ Navigate
    \/ DisclaimerMountEffect
    \/ DisclaimerHandleAccept
    \/ DashboardSetSymptoms
    \/ DashboardHandleSubmit
    \/ TriageFormSetSymptoms
    \/ TriageFormSetLocation
    \/ TriageFormHandleSubmit
    \/ TriageTextRejected
    \/ TriageTextNotOk
    \/ TriageTextOk
    \/ TriageFacilitiesResponse
    \/ VoiceInputStartRecording
    \/ VoiceInputStopRecording
    \/ VoiceInputHandleSubmit
    \/ TriageVoiceRejected
    \/ TriageVoiceNotOk
    \/ TriageVoiceOk
    \/ DeskSelectTab
    \/ DeskSetTextSymptoms
    \/ DeskSetLocation
    \/ DeskHandleTextTriage
    \/ DeskTextResponse
    \/ DeskStartRecording
    \/ DeskStopRecording
    \/ DeskHandleVoiceTriage
    \/ DeskVoiceResponse

SpecPrivacy == Init /\ [][NextPrivacy]_vars

StorageChanged ==
    \/ DOMAIN sessionStorage' # DOMAIN sessionStorage
    \/ \E k \in DOMAIN sessionStorage : sessionStorage'[k] # sessionStorage[k]

\* a submit handler starts a request, or resumes with its answer
RequestStep ==
    \/ pending'.url # pending.url
    \/ desk'.pending.url # desk.pending.url

\* C14: nothing of a submission reaches the browser's storage: the only key
\* ever stored is 'disclaimerAccepted', storage changes only in handleAccept,
\* and no step of a submit handler changes it.
C14_OnlyAcceptanceStored ==
    [][/\ DOMAIN sessionStorage' \subseteq {"disclaimerAccepted"}
       /\ StorageChanged
            => /\ disclaimer'.isAccepted /\ ~disclaimer.isAccepted
               /\ sessionStorage' =
                    setItem(sessionStorage, "disclaimerAccepted", "true")
       /\ RequestStep => ~StorageChanged]_vars

C14_ResultHeldAcceptanceStored ==
    /\ root = "App" /\ route = "/results"
    /\ triageResult # Null /\ facilities # <<>>
    /\ DOMAIN sessionStorage = {"disclaimerAccepted"}

AcceptedInSession ==
    getItem(sessionStorage, "disclaimerAccepted") = Some("true")

\* C15: acceptance lasts for the session.  An accepted Disclaimer stays
\* accepted until it is unmounted; a Disclaimer mounted after handleAccept ran
\* in the session is accepted by its mount effect, with no click; and while
\* the session holds no acceptance every Disclaimer shows the splash.
C15_AcceptanceLastsForSession ==
    [][/\ (disclaimer.isAccepted /\ ~Reload) => disclaimer'.isAccepted
       /\ (~disclaimer.mounted /\ disclaimer'.mounted /\ AcceptedInSession)
            => /\ disclaimer'.isAccepted
               /\ DisclaimerView(disclaimer') # "splash"
       /\ (disclaimer'.mounted /\ AcceptedInSession') => disclaimer'.isAccepted
       /\ ~AcceptedInSession' => DisclaimerView(disclaimer') = "splash"]_vars

\* a Disclaimer newly mounted in a session that holds the acceptance, before
\* its mount effect
C15_MountedAfterAcceptance ==
    /\ root = "App"
    /\ AcceptedInSession
    /\ ~disclaimer.mounted /\ ~disclaimer.isAccepted

TriageUrls == {"/triage/text", "/triage/voice"}

\* a step in which a triage request of App or of AroviaHealthDesk ends in an
\* error
TriageFailureSurfaced ==
    \/ /\ pending.url \in TriageUrls /\ pending'.url = "none"
       /\ error' # Null
    \/ /\ desk.pending.url \in TriageUrls /\ desk'.pending.url = "none"
       /\ desk'.error # Null

AttemptsMade ==
    IF root = "App" THEN pending.attempts ELSE desk.pending.attempts

\* C16 as stated: a failing triage request has been issued again at least once
\* when its failure is surfaced as an error.
C16_FailureRetriedBeforeSurfaced ==
    [][TriageFailureSurfaced => AttemptsMade >= 2]_vars

\* C16: a triage request is fetched once.  The fetch count of a request grows
\* only when a handler starts it, never while it is in flight, and the failure
\* that is surfaced as the error is that of the first and only fetch, which
\* ends the request with loading reset.
C16_FirstFailureSurfaced ==
    [][/\ AttemptsMade' <= 1
       /\ pending'.attempts > pending.attempts => pending.url = "none"
       /\ desk'.pending.attempts > desk.pending.attempts
            => desk.pending.url = "none"
       /\ TriageFailureSurfaced
            => /\ AttemptsMade = 1
               /\ root = "App" => (pending' = NoRequest /\ ~loading')
               /\ root = "Desk" => (desk'.pending = NoRequest /\ ~desk'.loading)]_vars

C16_VoiceFailureOnResults ==
    /\ root = "App" /\ route = "/results"
    /\ pending = NoRequest /\ ~loading
    /\ error = Some("Failed to process voice input")
    /\ ResultsOnScreen.screen = "error"

\* the number of languages the features text "Supports 22+ Languages" promises
LanguagesPromised == 22

\* the interface languages a user can select: those the Header offers and
\* buildResources has resources for
InterfaceLanguages == HeaderLanguages \cap DOMAIN buildResources

\* C17: wherever a language can be selected, at least 22 languages are offered:
\* for the interface in the Header, and for voice input in VoiceInput and in
\* the voice tab of AroviaHealthDesk.
C17_AtLeast22Languages ==
    /\ root = "App" => Cardinality(InterfaceLanguages) >= LanguagesPromised
    /\ (root = "App" /\ route = "/voice")
            => Cardinality(VoiceLanguages) >= LanguagesPromised
    /\ (root = "Desk" /\ desk.activeTab = "voice-triage")
            => Cardinality(DeskLanguages) >= LanguagesPromised

====
